---- MODULE Spec2Model ----
(***************************************************************************)
(* Model of the inner! macro (src/src/lib.rs): the IntoResult trait with   *)
(* its implementations, the six macro_rules! arms, and the execution of a  *)
(* function that contains one inner! call followed by further statements.  *)
(***************************************************************************)
EXTENDS Integers, Sequences, FiniteSets, TLC

\* Payload integers carried by the values under test are 0..MaxPayload.
MaxPayload == 7

Payloads == 0..MaxPayload

-----------------------------------------------------------------------------
(* Values.  Every value is a record of the same shape: primitives carry    *)
(* their number in n, enum values carry their variant in tag and their     *)
(* payload fields in fields.                                               *)

Prim(ty, n) == [ty |-> ty, tag |-> "", n |-> n, fields |-> <<>>]
Enum(ty, tag, fields) == [ty |-> ty, tag |-> tag, n |-> 0, fields |-> fields]

I32(n) == Prim("i32", n)
I16(n) == Prim("i16", n)
\* A String holding the decimal digits of n.
Str(n) == Prim("String", n)
Unit == Prim("()", 0)
\* Placeholder of a binding or result that has not been produced.
NoVal == Prim("-", 0)

Some(v) == Enum("Option", "Some", <<v>>)
None == Enum("Option", "None", <<>>)
Ok(v) == Enum("Result", "Ok", <<v>>)
Err(v) == Enum("Result", "Err", <<v>>)
Apple(i) == Enum("Fruit", "Fruit::Apple", <<I32(i)>>)
Orange(i) == Enum("Fruit", "Fruit::Orange", <<I16(i)>>)

Options == {None} \cup {Some(I32(p)) : p \in Payloads}
Results == {Ok(I32(p)) : p \in Payloads} \cup {Err(I32(p)) : p \in Payloads}
Fruits == {Apple(p) : p \in Payloads} \cup {Orange(p) : p \in Payloads}
Values == Options \cup Results \cup Fruits

\* The variants of a type that carry exactly one field (usable as `if $i`).
TupleVariants(ty) ==
  CASE ty = "Option" -> {"Some"}
    [] ty = "Result" -> {"Ok", "Err"}
    [] ty = "Fruit" -> {"Fruit::Apple", "Fruit::Orange"}
    [] OTHER -> {}

-----------------------------------------------------------------------------
(* The IntoResult trait and its implementations.                           *)

\* The two variants exchanged.
IntoResultResultSwapped(self) ==
  IF self.tag = "Ok" THEN Err(self.fields[1]) ELSE Ok(self.fields[1])

\* impl<T, E> IntoResult<T, E> for Result<T, E>: { self }
IntoResultResult(self) == self

\* The payload dropped: every option becomes the failure.
IntoResultOptionAlwaysErr(self) == Err(Unit)

\* impl<T> IntoResult<T, ()> for Option<T>: { self.ok_or(()) }
IntoResultOption(self) ==
  IF self.tag = "Some" THEN Ok(self.fields[1]) ELSE Err(Unit)

\* impl IntoResult<i32, i16> for Fruit (test own_enum)
IntoResultFruit(self) ==
  IF self.tag = "Fruit::Apple" THEN Ok(self.fields[1]) ELSE Err(self.fields[1])

\* $x.into_result(): the implementation is chosen by the static type of $x.
into_result(self) ==
  CASE self.ty = "Result" -> IntoResultResult(self)
    [] self.ty = "Option" -> IntoResultOption(self)
    [] self.ty = "Fruit" -> IntoResultFruit(self)

-----------------------------------------------------------------------------
(* Call sites and macro_rules! matching.                                   *)

\* Source text of the expressions passed as $x, as token sequences.
VarZ == <<"z">>
VarX == <<"x">>
LitSome7 == <<"Some", "(", "7", ")">>
Exprs == {VarZ, VarX, LitSome7}

\* Fallback blocks written at the call sites of the tests and docs.
BlkReturn == "{ return }"
BlkPanic == "{ panic!(\"Not an apple\") }"
BlkZero == "{ 0 }"
BlkNine == "{ 9 }"
BlkAddTwoToString == "{ (e + 2).to_string() }"
BlkSubEight == "{ (e - 8) as i32 }"
Blocks == {BlkReturn, BlkPanic, BlkZero, BlkNine, BlkAddTwoToString, BlkSubEight}

\* A call site: the expression text, the `if` path ("" when absent), whether
\* an `else` clause is present, the captured name ("" when absent), the block.
Calls ==
  [x : Exprs,
   ifv : {""} \cup UNION {TupleVariants(t) : t \in {"Option", "Result", "Fruit"}},
   els : BOOLEAN,
   cap : {"", "e"},
   blk : {""} \cup Blocks]

Tok(kind, text) == [kind |-> kind, text |-> text]
Lit(s) == Tok("lit", <<s>>)

\* The token sequence inside inner!( ... ) for a call site.
Tokens(c) ==
  <<Tok("expr", c.x)>>
  \o (IF c.ifv # "" THEN <<Lit(","), Lit("if"), Tok("path", <<c.ifv>>)>> ELSE <<>>)
  \o (IF c.els
      THEN <<Lit(","), Lit("else")>>
           \o (IF c.cap # "" THEN <<Lit("|"), Tok("ident", <<c.cap>>), Lit("|")>>
               ELSE <<>>)
           \o <<Tok("block", <<c.blk>>)>>
      ELSE <<>>)

\* Matcher items: a literal token or a fragment specifier ($name:kind).
PLit(s) == [lit |-> TRUE, kind |-> "lit", text |-> <<s>>]
Frag(kind) == [lit |-> FALSE, kind |-> kind, text |-> <<>>]

\* ($x:expr, if $i:path, else |$e:ident| $b:block)
RuleA == <<Frag("expr"), PLit(","), PLit("if"), Frag("path"), PLit(","),
           PLit("else"), PLit("|"), Frag("ident"), PLit("|"), Frag("block")>>
\* ($x:expr, if $i:path, else $b:block)
RuleB == <<Frag("expr"), PLit(","), PLit("if"), Frag("path"), PLit(","),
           PLit("else"), Frag("block")>>
\* ($x:expr, else $b:block)
RuleD == <<Frag("expr"), PLit(","), PLit("else"), Frag("block")>>
\* The |$e:ident| capture left out of the third matcher.
RuleCNoCapture == RuleD
\* ($x:expr, else |$e:ident| $b:block)
RuleC == <<Frag("expr"), PLit(","), PLit("else"), PLit("|"), Frag("ident"),
           PLit("|"), Frag("block")>>
\* ($x:expr, if $i:path)
RuleE == <<Frag("expr"), PLit(","), PLit("if"), Frag("path")>>
\* ($x:expr)
RuleF == <<Frag("expr")>>

\* The arms of macro_rules! inner in the order they are written.
Rules == <<RuleA, RuleB, RuleC, RuleD, RuleE, RuleF>>
ShapeNames == <<"A", "B", "C", "D", "E", "F">>

ItemMatches(p, t) ==
  IF p.lit THEN t.kind = "lit" /\ t.text = p.text ELSE t.kind = p.kind

\* A matcher accepts a token sequence when every item matches and no token
\* is left over.
MatchRule(rule, toks) ==
  /\ Len(rule) = Len(toks)
  /\ \A k \in 1..Len(rule) : ItemMatches(rule[k], toks[k])

\* macro_rules! tries the arms top to bottom and takes the first that matches.
SelectShape(toks) ==
  LET hits == {k \in 1..Len(Rules) : MatchRule(Rules[k], toks)}
  IN IF hits = {} THEN "error"
     ELSE ShapeNames[CHOOSE k \in hits : \A j \in hits : k <= j]

-----------------------------------------------------------------------------
(* What a call site must satisfy to compile against a value of x's type.   *)

WellTyped(c, v) ==
  /\ c.ifv \in {""} \cup TupleVariants(v.ty)
  /\ ~c.els => (c.cap = "" /\ c.blk = "")
  /\ (c.els /\ c.cap = "") => c.blk \in {BlkReturn, BlkPanic, BlkZero}
  /\ (c.els /\ c.cap # "" /\ c.ifv # "") => c.blk \in {BlkReturn, BlkNine}
  /\ (c.els /\ c.cap # "" /\ c.ifv = "") =>
       IF v.ty = "Option" THEN c.blk \in {BlkReturn, BlkNine}
       ELSE c.blk \in {BlkReturn, BlkAddTwoToString, BlkSubEight}
  \* a literal expression evaluates to the value it denotes
  /\ c.x = LitSome7 => v = Some(I32(7))

-----------------------------------------------------------------------------
(* The pieces of the expansions.                                           *)

Outcome(kind, v, m) == [kind |-> kind, v |-> v, msg |-> m]

\* Evaluation of a fallback block with `e` bound (NoVal when nothing is bound).
EvalBlock(blk, e) ==
  CASE blk = BlkReturn -> Outcome("return", NoVal, <<>>)
    [] blk = BlkPanic -> Outcome("panic", NoVal, <<"Not an apple">>)
    [] blk = BlkZero -> Outcome("value", I32(0), <<>>)
    [] blk = BlkNine -> Outcome("value", I32(9), <<>>)
    [] blk = BlkAddTwoToString -> Outcome("value", Str(e.n + 2), <<>>)
    [] blk = BlkSubEight -> Outcome("value", I32(e.n - 8), <<>>)

\* The block wrapped in a closure that is called at once: `return` leaves the
\* closure only.
ElseArmClosure(blk, e) ==
  LET o == EvalBlock(blk, e)
  IN IF o.kind = "return" THEN Outcome("value", Unit, <<>>) ELSE o

\* `... => $b`: the block is pasted into the match arm, so what the block
\* does (yield a value, return, panic) happens in the enclosing function.
ElseArm(blk, e) == EvalBlock(blk, e)

\* The wildcard arm written first: the variant arm is never taken.
VariantArmShadowed(x, i) == FALSE

\* `$i(q) => ...`: the pattern matches when x was built by constructor $i.
VariantArm(x, i) == x.tag = i

\* The arm yields the scrutinee instead of the bound field.
VariantFieldWhole(x) == x

\* `$i(q) => q`: q is the single field of the variant.
VariantField(x) == x.fields[1]

\* `Ok(q) | Err(q)`: every result matches.
OkArmAny(r) == TRUE

\* `Ok(q) => ...` on the converted value.
OkArm(r) == r.tag = "Ok"

\* `Ok(q) => q`
OkField(r) == r.fields[1]

\* `$e @ _` in place of `Err($e)`: the whole result is bound.
BindErrWhole(r) == r

\* `Err($e) => $b`: $e is the failure payload.
BindErr(r) == r.fields[1]

\* `$i(..)`-style binding of the field in place of `$e @ _`.
BindWholeField(x) == IF x.fields = <<>> THEN Unit ELSE x.fields[1]

\* `$e @ _ => $b`: $e is the entire unmatched value.
BindWhole(x) == x

\* stringify!($x): the tokens of the expression as written at the call site.
stringify(xsrc) == xsrc

\* The value formatted into the message in place of the expression text.
FailArmDebug(xsrc, unmatched) ==
  <<"Unexpected value found inside '">>
  \o <<unmatched.tag>>
  \o (IF unmatched.fields = <<>> THEN <<>> ELSE <<"(", "payload", ")">>)
  \o <<"'">>

\* `_ => panic!("Unexpected value found inside '{}'", stringify!($x))`
FailArm(xsrc, unmatched) ==
  <<"Unexpected value found inside '">> \o stringify(xsrc) \o <<"'">>

-----------------------------------------------------------------------------
(* Execution of a function that holds one inner! call.                     *)

VARIABLES
  call,      \* the call site (fixed at compile time)
  val,       \* the runtime value of $x
  pc,        \* where the enclosing function is
  shape,     \* the macro arm chosen for the call site ("" before expansion)
  conv,      \* the value of $x.into_result()
  e,         \* what the else clause's |e| is bound to
  result,    \* the value of the inner! expression
  msg,       \* the panic message
  events,    \* what the function has done so far, in order
  lastPanic  \* the macro panic of the latest earlier call that had one

vars == <<call, val, pc, shape, conv, e, result, msg, events, lastPanic>>

NoPanic == [x |-> <<>>, val |-> NoVal, msg |-> <<>>]

\* The call sites and values a run can start from.
Starts == {cv \in Calls \X Values : WellTyped(cv[1], cv[2])}

Init ==
  /\ \E cv \in Starts : call = cv[1] /\ val = cv[2]
  /\ pc = "call"
  /\ shape = ""
  /\ conv = NoVal
  /\ e = NoVal
  /\ result = NoVal
  /\ msg = <<>>
  /\ events = <<>>
  /\ lastPanic = NoPanic

Do(ev) == events' = Append(events, ev)

\* Compile time: macro_rules! picks the arm for the call's tokens.
Expand ==
  /\ pc = "call"
  /\ shape' = SelectShape(Tokens(call))
  /\ pc' = "expanded"
  /\ UNCHANGED <<call, val, conv, e, result, msg, events, lastPanic>>

\* `$x.into_result()`, the scrutinee of arms C, D and F.
Convert ==
  /\ pc = "expanded"
  /\ shape \in {"C", "D", "F"}
  /\ conv' = into_result(val)
  /\ pc' = "converted"
  /\ Do("into_result")
  /\ UNCHANGED <<call, val, shape, e, result, msg, lastPanic>>

Yield(q) ==
  /\ result' = q
  /\ pc' = "yielded"
  /\ Do("yield")
  /\ UNCHANGED <<e, msg>>

ToBlock(bound) ==
  /\ e' = bound
  /\ pc' = "block"
  /\ Do("else")
  /\ UNCHANGED <<result, msg>>

Panic(m) ==
  /\ msg' = m
  /\ pc' = "panicked"
  /\ Do("panic!")
  /\ UNCHANGED <<e, result>>

\* match $x { $i(q) => q, $e @ _ => $b }
ShapeA ==
  /\ pc = "expanded"
  /\ shape = "A"
  /\ IF VariantArm(val, call.ifv) THEN Yield(VariantField(val))
     ELSE ToBlock(BindWhole(val))
  /\ UNCHANGED <<call, val, shape, conv, lastPanic>>

\* match $x { $i(q) => q, _ => $b }
ShapeB ==
  /\ pc = "expanded"
  /\ shape = "B"
  /\ IF VariantArm(val, call.ifv) THEN Yield(VariantField(val))
     ELSE ToBlock(NoVal)
  /\ UNCHANGED <<call, val, shape, conv, lastPanic>>

\* match $x.into_result() { Ok(q) => q, Err($e) => $b }
ShapeC ==
  /\ pc = "converted"
  /\ shape = "C"
  /\ IF OkArm(conv) THEN Yield(OkField(conv))
     ELSE ToBlock(BindErr(conv))
  /\ UNCHANGED <<call, val, shape, conv, lastPanic>>

\* match $x.into_result() { Ok(q) => q, _ => $b }
ShapeD ==
  /\ pc = "converted"
  /\ shape = "D"
  /\ IF OkArm(conv) THEN Yield(OkField(conv))
     ELSE ToBlock(NoVal)
  /\ UNCHANGED <<call, val, shape, conv, lastPanic>>

\* match $x { $i(q) => q, _ => panic!(..) }
ShapeE ==
  /\ pc = "expanded"
  /\ shape = "E"
  /\ IF VariantArm(val, call.ifv) THEN Yield(VariantField(val))
     ELSE Panic(FailArm(call.x, val))
  /\ UNCHANGED <<call, val, shape, conv, lastPanic>>

\* match $x.into_result() { Ok(q) => q, _ => panic!(..) }
ShapeF ==
  /\ pc = "converted"
  /\ shape = "F"
  /\ IF OkArm(conv) THEN Yield(OkField(conv))
     ELSE Panic(FailArm(call.x, conv))
  /\ UNCHANGED <<call, val, shape, conv, lastPanic>>

\* The else arm runs its block.
Block ==
  /\ pc = "block"
  /\ LET o == ElseArm(call.blk, e)
     IN /\ events' = events \o <<"block", o.kind>>
        /\ CASE o.kind = "value" -> /\ result' = o.v
                                    /\ pc' = "yielded"
                                    /\ msg' = msg
             [] o.kind = "return" -> /\ pc' = "returned"
                                     /\ UNCHANGED <<result, msg>>
             [] o.kind = "panic" -> /\ pc' = "panicked"
                                    /\ msg' = o.msg
                                    /\ result' = result
  /\ UNCHANGED <<call, val, shape, conv, e, lastPanic>>

\* The statement that follows the inner! expression is reached.
Continue ==
  /\ pc = "yielded"
  /\ pc' = "after"
  /\ Do("after")
  /\ UNCHANGED <<call, val, shape, conv, e, result, msg, lastPanic>>

\* The function runs off its end.
FnEnd ==
  /\ pc = "after"
  /\ pc' = "returned"
  /\ Do("end")
  /\ UNCHANGED <<call, val, shape, conv, e, result, msg, lastPanic>>

MacroPanicked == pc = "panicked" /\ events[Len(events)] = "panic!"

\* The function is called again, with another value of the same type for $x.
CallAgain ==
  /\ pc \in {"returned", "panicked"}
  /\ \E v \in Values : /\ v.ty = val.ty
                        /\ WellTyped(call, v)
                        /\ val' = v
  /\ pc' = "call"
  /\ shape' = ""
  /\ conv' = NoVal
  /\ e' = NoVal
  /\ result' = NoVal
  /\ msg' = <<>>
  /\ events' = <<>>
  /\ lastPanic' = IF MacroPanicked THEN [x |-> call.x, val |-> val, msg |-> msg]
                  ELSE lastPanic
  /\ UNCHANGED call

Next ==
  \/ Expand
  \/ Convert
  \/ ShapeA
  \/ ShapeB
  \/ ShapeC
  \/ ShapeD
  \/ ShapeE
  \/ ShapeF
  \/ Block
  \/ Continue
  \/ FnEnd
  \/ CallAgain

Spec == Init /\ [][Next]_vars

-----------------------------------------------------------------------------
(* Properties.                                                             *)

Has(ev) == \E k \in 1..Len(events) : events[k] = ev
Count(ev) == Cardinality({k \in 1..Len(events) : events[k] = ev})

\* The inner! expression has been evaluated to its end (value, return or panic).
Extracted == pc \in {"yielded", "after", "returned", "panicked"}

\* The sequence t occurs in m as a contiguous run.
Contains(m, t) ==
  \E k \in 0..(Len(m) - Len(t)) : SubSeq(m, k + 1, k + Len(t)) = t

\* The shape a call form denotes, read off the clauses that are present.
ShapeOfForm(c) ==
  CASE c.ifv # "" /\ c.els /\ c.cap # "" -> "A"
    [] c.ifv # "" /\ c.els /\ c.cap = "" -> "B"
    [] c.ifv = "" /\ c.els /\ c.cap # "" -> "C"
    [] c.ifv = "" /\ c.els /\ c.cap = "" -> "D"
    [] c.ifv # "" /\ ~c.els -> "E"
    [] c.ifv = "" /\ ~c.els -> "F"

\* What the call's block must have done given the value bound to e.
BlockDid(p) ==
  CASE call.blk = BlkReturn -> pc = "returned" /\ result = NoVal
    [] call.blk = BlkPanic -> pc = "panicked" /\ result = NoVal
    [] call.blk = BlkZero -> pc # "panicked" /\ result = I32(0)
    [] call.blk = BlkNine -> pc # "panicked" /\ result = I32(9)
    [] call.blk = BlkAddTwoToString -> pc # "panicked" /\ result = Str(p.n + 2)
    [] call.blk = BlkSubEight -> pc # "panicked" /\ result = I32(p.n - 8)

\* C1: inner!(x) (shape F) on Some(v) or Ok(v) yields exactly v; on None or
\* Err(e) it panics and yields no value.
C1_NoClauseYieldsOrPanics ==
  (shape = "F" /\ Extracted /\ val.ty \in {"Option", "Result"}) =>
    IF val.tag \in {"Some", "Ok"}
    THEN result = val.fields[1] /\ pc # "panicked" /\ ~Has("panic!")
    ELSE pc = "panicked" /\ Has("panic!") /\ result = NoVal

\* inner!(z) has panicked on None in an earlier call and now yields 7 on Some(7).
C1_Witness ==
  /\ shape = "F"
  /\ lastPanic.val = None
  /\ val = Some(I32(7))
  /\ result = I32(7)
  /\ pc = "after"

\* C2: inner!(x, else |e| { block }) (shape C) on a value whose into_result
\* is Err(p) binds e to exactly p, evaluates the block, and the block's value
\* is the value of the extraction.
C2_ElseCaptureBindsFailurePayload ==
  (shape = "C" /\ conv.tag = "Err" /\ pc # "converted") =>
    /\ e = conv.fields[1]
    /\ Has("else")
    /\ Has("block") => BlockDid(conv.fields[1])

\* Err(7) with the block (e + 2).to_string() has produced "9".
C2_Witness ==
  /\ shape = "C"
  /\ val = Err(I32(7))
  /\ call.blk = BlkAddTwoToString
  /\ e = I32(7)
  /\ result = Str(9)
  /\ pc = "yielded"

\* C3: with an `if Variant` clause (shapes A, B, E) a value built as
\* Variant(payload) yields exactly payload, whatever the else clause is.
C3_MatchingVariantYieldsPayload ==
  (shape \in {"A", "B", "E"} /\ Extracted /\ val.tag = call.ifv) =>
    /\ result = val.fields[1]
    /\ pc \in {"yielded", "after", "returned"}
    /\ ~Has("block")
    /\ ~Has("panic!")

\* inner!(z, if Fruit::Orange, else |e| {..}) on Orange(7) has yielded 7.
C3_Witness ==
  /\ shape = "A"
  /\ call.ifv = "Fruit::Orange"
  /\ val = Orange(7)
  /\ result = I16(7)
  /\ pc = "yielded"

\* C4: inner!(x, if Variant, else |e| { block }) (shape A) on a value of
\* another variant binds e to the entire value of x, and the block's value
\* is the result.
C4_MismatchBindsWholeValue ==
  (shape = "A" /\ pc # "expanded" /\ val.tag # call.ifv) =>
    /\ e = val
    /\ Has("else")
    /\ Has("block") => BlockDid(val)

\* inner!(z, if Fruit::Orange, else |e| { 9 }) on Apple(7): e is Apple(7), result 9.
C4_Witness ==
  /\ shape = "A"
  /\ call.ifv = "Fruit::Orange"
  /\ call.blk = BlkNine
  /\ val = Apple(7)
  /\ e = Apple(7)
  /\ result = I32(9)
  /\ pc = "yielded"

\* C5: when the else block runs `return`, the enclosing function returns at
\* once: the extraction yields nothing and no statement after it is reached.
C5_ReturnInBlockLeavesFunction ==
  (Has("block") /\ call.blk = BlkReturn) =>
    /\ pc = "returned"
    /\ events[Len(events)] = "return"
    /\ ~Has("yield")
    /\ ~Has("after")
    /\ ~Has("end")
    /\ result = NoVal

\* inner!(x, else { return }) on Err(7) has returned from the function.
C5_Witness ==
  /\ shape = "D"
  /\ val = Err(I32(7))
  /\ call.blk = BlkReturn
  /\ Has("block")
  /\ pc = "returned"

\* C6: in shapes E and F every non-matching or failing input panics with a
\* message that contains the source text of x, and the message is the same
\* as that of an earlier call of the same source text with another value.
C6_PanicMessageNamesSourceText ==
  (shape \in {"E", "F"} /\ Extracted
     /\ (IF shape = "E" THEN val.tag # call.ifv ELSE conv.tag = "Err")) =>
    /\ pc = "panicked"
    /\ events[Len(events)] = "panic!"
    /\ Contains(msg, call.x)
    /\ (lastPanic # NoPanic /\ lastPanic.x = call.x) => lastPanic.msg = msg

\* Two calls of the same source text have panicked on different values.
C6_Witness ==
  /\ MacroPanicked
  /\ lastPanic # NoPanic
  /\ lastPanic.x = call.x
  /\ lastPanic.val # val

\* C7: into_result on a Result returns a value equal to its input: same
\* variant, same payload.
C7_ResultConversionIsIdentity ==
  (val.ty = "Result" /\ Has("into_result")) => conv = val

\* Err(7) has been converted.
C7_Witness ==
  /\ val = Err(I32(7))
  /\ pc = "converted"
  /\ conv.tag = "Err"
  /\ conv.fields = <<I32(7)>>

\* C8: into_result on an Option maps Some(v) to Ok(v) with v unaltered and
\* None to Err(()).
C8_OptionConversion ==
  (val.ty = "Option" /\ Has("into_result")) =>
    IF val.tag = "Some"
    THEN conv.tag = "Ok" /\ conv.fields = val.fields
    ELSE conv.tag = "Err" /\ conv.fields = <<Unit>>

\* None has been converted to Err(()).
C8_Witness ==
  /\ val = None
  /\ pc = "converted"
  /\ conv = Err(Unit)

\* C9: the arm chosen by trying the matchers in the order A..F is the shape
\* of the call's form, whatever the runtime value of x.
C9_ShapeIsTheFormOfTheCall ==
  shape # "" => shape = ShapeOfForm(call)

\* The same call site has been expanded for two different values of x.
C9_Witness ==
  /\ shape = "E"
  /\ call.ifv # ""
  /\ ~call.els
  /\ lastPanic # NoPanic
  /\ lastPanic.val # val

\* C10: in shapes A-D the block is evaluated if and only if the extraction
\* fails: on a match or success it is not evaluated and the payload is
\* yielded; on failure it is evaluated exactly once and the macro does not
\* panic.
C10_BlockRunsIffExtractionFails ==
  (shape \in {"A", "B", "C", "D"} /\ Extracted) =>
    IF (IF shape \in {"A", "B"} THEN val.tag = call.ifv ELSE conv.tag = "Ok")
    THEN /\ Count("block") = 0
         /\ pc # "panicked"
         /\ result = (IF shape \in {"A", "B"} THEN val.fields[1]
                      ELSE conv.fields[1])
    ELSE /\ Count("block") = 1
         /\ ~Has("panic!")

\* inner!(z, if Fruit::Apple, else { panic!(..) }) on Apple(7) went past
\* the extraction with 7.
C10_Witness ==
  /\ shape = "B"
  /\ call.blk = BlkPanic
  /\ val = Apple(7)
  /\ result = I32(7)
  /\ pc = "after"

====
